---- MODULE Spec2Model ----
(***************************************************************************)
(* Realm model generator of apollo-codegen: generateSource walks the type  *)
(* map of a GraphQL schema and prints one Swift class per object type,     *)
(* one property declaration per field (SwiftGenerator.propertyDeclaration).*)
(* The output buffer is a sequence of text lines (joined by "\n"); the     *)
(* closures passed to withinBlock are run step by step, so every state     *)
(* between two printed declarations is a state of the model.               *)
(***************************************************************************)
EXTENDS Integers, Sequences, FiniteSets, TLC

VARIABLES
  context,      \* the CompilerContext: schema type map and options
  generator,    \* the RealmModelGenerator: output, indentation, scope stack
  pc,           \* position of the run
  typeIndex,    \* position of the forEach over the type map
  fieldIndex,   \* position of the forEach over the fields of the current type
  call,         \* the Property propertyDeclaration was first called with
  property,     \* propertyDeclaration's current argument
  isOptional,   \* propertyDeclaration's isOptional parameter
  isList,       \* propertyDeclaration's isList parameter
  caller        \* who called propertyDeclaration

vars == <<context, generator, pc, typeIndex, fieldIndex, call, property,
          isOptional, isList, caller>>

----------------------------------------------------------------------------
(* Bounds of the model *)

\* wrapper layers (NonNull, List) around a named type, propertyDeclaration alone
MaxWrappers == 3
\* types in the schema's type map
MaxTypes == 2
\* fields in the whole schema
MaxFields == 2

----------------------------------------------------------------------------
(* GraphQL types *)

NamedType(kind, name) == [kind |-> kind, name |-> name]
GraphQLList(t) == [kind |-> "List", ofType |-> t]
GraphQLNonNull(t) == [kind |-> "NonNull", ofType |-> t]

GraphQLBoolean == NamedType("Scalar", "Boolean")
GraphQLInt == NamedType("Scalar", "Int")
GraphQLFloat == NamedType("Scalar", "Float")
GraphQLString == NamedType("Scalar", "String")
GraphQLID == NamedType("Scalar", "ID")

\* the named types a field can have: every output type of a schema
OutputNamedTypes ==
  { GraphQLBoolean, GraphQLInt, GraphQLFloat, GraphQLString, GraphQLID,
    NamedType("Scalar", "Date"),
    NamedType("Object", "User"),
    NamedType("Enum", "Episode"),
    NamedType("Interface", "Node"),
    NamedType("Union", "SearchResult") }

IsWrapper(t) == t.kind \in {"List", "NonNull"}

\* NonNull never wraps NonNull (the GraphQLNonNull constructor rejects it)
RECURSIVE WrappedTypes(_, _)
WrappedTypes(named, n) ==
  IF n = 0 THEN named
  ELSE LET S == WrappedTypes(named, n - 1)
       IN  S \cup { GraphQLList(t) : t \in S }
             \cup { GraphQLNonNull(t) : t \in { u \in S : u.kind # "NonNull" } }

RECURSIVE NamedTypeOf(_)
NamedTypeOf(t) == IF IsWrapper(t) THEN NamedTypeOf(t.ofType) ELSE t

RECURSIVE HasWrapper(_, _)
HasWrapper(t, kind) ==
  IsWrapper(t) /\ (t.kind = kind \/ HasWrapper(t.ofType, kind))

----------------------------------------------------------------------------
(* Strings *)

HasPrefix(s, p) == Len(s) >= Len(p) /\ SubSeq(s, 1, Len(p)) = p
HasSuffix(s, p) == Len(s) >= Len(p) /\ SubSeq(s, Len(s) - Len(p) + 1, Len(s)) = p

RECURSIVE Indentation(_)
Indentation(n) == IF n = 0 THEN "" ELSE " " \o Indentation(n - 1)

RECURSIVE TrimStart(_)
TrimStart(s) == IF HasPrefix(s, " ") THEN TrimStart(SubSeq(s, 2, Len(s))) ELSE s

RECURSIVE TrimEnd(_)
TrimEnd(s) == IF HasSuffix(s, " ") THEN TrimEnd(SubSeq(s, 1, Len(s) - 1)) ELSE s

Trim(s) == TrimEnd(TrimStart(s))

\* s.split('\n')
RECURSIVE SplitFrom(_, _, _)
SplitFrom(s, i, start) ==
  IF i > Len(s) THEN << SubSeq(s, start, Len(s)) >>
  ELSE IF SubSeq(s, i, i) = "\n"
       THEN << SubSeq(s, start, i - 1) >> \o SplitFrom(s, i + 1, i + 1)
       ELSE SplitFrom(s, i + 1, start)

SplitLines(s) == SplitFrom(s, 1, 1)

\* the first position at or after i where s holds one of the characters of
\* stops, Len(s) + 1 when there is none
RECURSIVE IndexOfAny(_, _, _)
IndexOfAny(s, stops, i) ==
  IF i > Len(s) \/ SubSeq(s, i, i) \in stops THEN i
  ELSE IndexOfAny(s, stops, i + 1)

LowerCaseLetters == "abcdefghijklmnopqrstuvwxyz"
UpperCaseLetters == "ABCDEFGHIJKLMNOPQRSTUVWXYZ"
Digits == "0123456789"

CharAt(s, i) == SubSeq(s, i, i)
IsLower(c) == c # "" /\ IndexOfAny(LowerCaseLetters, {c}, 1) <= Len(LowerCaseLetters)
IsUpper(c) == c # "" /\ IndexOfAny(UpperCaseLetters, {c}, 1) <= Len(UpperCaseLetters)
IsDigit(c) == c # "" /\ IndexOfAny(Digits, {c}, 1) <= Len(Digits)
ToLower(c) ==
  IF IsUpper(c) THEN CharAt(LowerCaseLetters, IndexOfAny(UpperCaseLetters, {c}, 1)) ELSE c
ToUpper(c) ==
  IF IsLower(c) THEN CharAt(UpperCaseLetters, IndexOfAny(LowerCaseLetters, {c}, 1)) ELSE c

\* change-case's noCase: a space at every camel-case boundary and for every
\* run of characters that are neither letters nor digits, then lower case
RECURSIVE NoCaseFrom(_, _, _)
NoCaseFrom(s, i, acc) ==
  IF i > Len(s) THEN acc
  ELSE LET c == CharAt(s, i)
           prev == CharAt(s, i - 1)
           next == CharAt(s, i + 1)
           boundary ==
             /\ i > 1
             /\ IsUpper(c)
             /\ \/ IsLower(prev) \/ IsDigit(prev)
                \/ IsUpper(prev) /\ IsLower(next)
       IN  IF ~(IsLower(c) \/ IsUpper(c) \/ IsDigit(c))
           THEN NoCaseFrom(s, i + 1, IF HasSuffix(acc, " ") THEN acc ELSE acc \o " ")
           ELSE NoCaseFrom(s, i + 1,
                  (IF boundary /\ ~HasSuffix(acc, " ") THEN acc \o " " ELSE acc)
                    \o ToLower(c))

NoCase(s) == Trim(NoCaseFrom(s, 1, ""))

\* change-case's camelCase: noCase, then every space is dropped and the
\* character after it upper-cased (a digit is kept apart by "_")
RECURSIVE CamelFrom(_, _)
CamelFrom(s, i) ==
  IF i > Len(s) THEN ""
  ELSE IF CharAt(s, i) = " "
       THEN (IF IsDigit(CharAt(s, i + 1))
             THEN "_" \o CharAt(s, i + 1)
             ELSE ToUpper(CharAt(s, i + 1))) \o CamelFrom(s, i + 2)
       ELSE CharAt(s, i) \o CamelFrom(s, i + 1)

camelCase(name) == CamelFrom(NoCase(name), 1)

----------------------------------------------------------------------------
(* utilities/printing *)

RECURSIVE JoinFrom(_, _, _)
JoinFrom(strings, separator, i) ==
  IF i > Len(strings) THEN ""
  ELSE strings[i]
         \o (IF i < Len(strings) THEN separator ELSE "")
         \o JoinFrom(strings, separator, i + 1)

\* join drops the absent (empty) entries
join(strings, separator) ==
  JoinFrom(SelectSeq(strings, LAMBDA x : x # ""), separator, 1)

wrap(start, string, end) == IF string = "" THEN "" ELSE start \o string \o end

----------------------------------------------------------------------------
(* language.ts: identifiers *)

reservedKeywords ==
  {"associatedtype", "class", "deinit", "enum", "extension",
   "fileprivate", "func", "import", "init", "inout", "internal", "let", "open",
   "operator", "private", "protocol", "public", "static", "struct", "subscript",
   "typealias", "var", "break", "case", "continue", "default", "defer", "do",
   "else", "fallthrough", "for", "guard", "if", "in", "repeat", "return",
   "switch", "where", "while", "as", "Any", "catch", "false", "is", "nil",
   "rethrows", "super", "self", "Self", "throw", "throws", "true", "try",
   "associativity", "convenience", "dynamic", "didSet", "final", "get", "infix",
   "indirect", "lazy", "left", "mutating", "none", "nonmutating", "optional",
   "override", "postfix", "precedence", "prefix", "Protocol", "required", "right",
   "set", "Type", "unowned", "weak", "willSet"}

\* the grave accent of Swift's escaped identifiers; the TLA+ lexer has no
\* string holding that character, an apostrophe stands for it
GraveAccent == "'"

escapeIdentifierIfNeeded(identifier) ==
  IF identifier \in reservedKeywords
  THEN GraveAccent \o identifier \o GraveAccent
  ELSE identifier

----------------------------------------------------------------------------
(* utilities/CodeGenerator: the printer *)

NewGenerator ==
  [output |-> << "" >>, indentLevel |-> 0, startOfIndentLevel |-> FALSE,
   scopeStack |-> << >>]

\* the output is the empty string
OutputIsEmpty(g) == g.output = << "" >>

print(g, string) ==
  IF string = "" THEN g
  ELSE [g EXCEPT !.output[Len(g.output)] = @ \o string]

printNewline(g) ==
  IF OutputIsEmpty(g) THEN g
  ELSE [g EXCEPT !.output = Append(@, ""), !.startOfIndentLevel = FALSE]

printNewlineIfNeeded(g) ==
  IF ~g.startOfIndentLevel THEN printNewline(g) ELSE g

printIndent(g) ==
  [g EXCEPT !.output[Len(g.output)] = @ \o Indentation(g.indentLevel * 2)]

printOnNewline(g, string) ==
  IF string = "" THEN g
  ELSE print(printIndent(printNewline(g)), string)

pushScope(g, scope) == [g EXCEPT !.scopeStack = Append(@, scope)]

popScope(g) ==
  [g EXCEPT !.scopeStack = SubSeq(@, 1, Len(@) - 1)]

\* withinBlock up to the call of its closure: the opening brace, one level in
withinBlockOpen(g) ==
  [print(g, " {") EXCEPT !.indentLevel = @ + 1, !.startOfIndentLevel = TRUE]

\* withinBlock after its closure has returned: one level out, the closing brace
withinBlockClose(g) ==
  printOnNewline([g EXCEPT !.indentLevel = @ - 1], "}")

RECURSIVE printAllOnNewline(_, _, _)
printAllOnNewline(g, strings, i) ==
  IF i > Len(strings) THEN g
  ELSE printAllOnNewline(printOnNewline(g, strings[i]), strings, i + 1)

\* comment(comment): nothing for an absent or empty comment, else one
\* "/// " line per line of the comment, trimmed
comment(g, text) ==
  IF text = << >> \/ text = << "" >> THEN g
  ELSE LET lines == SplitLines(text[1])
       IN  printAllOnNewline(g, [i \in 1..Len(lines) |-> "/// " \o Trim(lines[i])], 1)

----------------------------------------------------------------------------
(* language.ts: SwiftGenerator *)

Truthy(maybeString) == maybeString # << >> /\ maybeString # << "" >>

\* namespaceDeclaration with a namespace, up to the call of its closure
namespaceDeclarationOpen(g, namespace) ==
  withinBlockOpen(
    pushScope(
      printOnNewline(
        printOnNewline(printNewlineIfNeeded(g), "/// " \o namespace \o " namespace"),
        "public enum " \o namespace),
      [typeName |-> namespace]))

\* namespaceDeclaration with a namespace, after its closure has returned
namespaceDeclarationClose(g) == popScope(withinBlockClose(g))

\* mutant: the class block pushes no scope frame
classDeclarationNoScope(g, className) == g

classDeclarationScope(g, className) == pushScope(g, [typeName |-> className])

\* classDeclaration up to the call of its closure; no superClass is passed
classDeclarationOpen(g, className, modifiers, adoptedProtocols) ==
  withinBlockOpen(
    classDeclarationScope(
      print(
        printOnNewline(printNewlineIfNeeded(g),
                       wrap("", join(modifiers, " "), " ") \o "class " \o className),
        wrap(": ", join(<< "" >> \o adoptedProtocols, ", "), "")),
      className))

\* classDeclaration after its closure has returned
classDeclarationClose(g) == popScope(withinBlockClose(g))

\* the default values of propertyDeclaration's parameters
DefaultIsOptional == TRUE
DefaultIsList == FALSE

\* mutant: the NonNull branch passes its own isOptional on
NonNullKeepsIsOptional(flag) == flag

\* the isOptional flag the NonNull branch passes to the recursive call
NonNullIsOptional(flag) == FALSE

\* the isList flag the List branch passes to the recursive call
ListIsList(flag) == TRUE

\* the Property of the recursive calls: the description is not passed on
Unwrapped(p) ==
  [propertyName |-> p.propertyName, typeName |-> p.typeName,
   type |-> p.type.ofType, description |-> << >>]

\* mutant: the String case lacks its break and falls through to the ID case
ScalarCaseStringFallsThrough(name) ==
  IF name \in {GraphQLString.name, GraphQLID.name} THEN GraphQLID.name
  ELSE IF name \in {GraphQLBoolean.name, GraphQLInt.name, GraphQLFloat.name}
       THEN name
       ELSE "default"

\* the case of the switch over type.name that matches
ScalarCase(name) ==
  IF name \in {GraphQLBoolean.name, GraphQLInt.name, GraphQLFloat.name,
               GraphQLString.name, GraphQLID.name}
  THEN name
  ELSE "default"

\* mutant: the two forms of the Boolean case are exchanged
BooleanDeclarationSwapped(propertyName, optional) ==
  IF optional
  THEN "dynamic var " \o propertyName \o " = false"
  ELSE "let " \o propertyName \o " = RealmOptional<Bool>()"

BooleanDeclaration(propertyName, optional) ==
  IF optional
  THEN "let " \o propertyName \o " = RealmOptional<Bool>()"
  ELSE "dynamic var " \o propertyName \o " = false"

IntDeclaration(propertyName, optional) ==
  IF optional
  THEN "let " \o propertyName \o " = RealmOptional<Int>()"
  ELSE "dynamic var " \o propertyName \o " = 0"

FloatDeclaration(propertyName, optional) ==
  IF optional
  THEN "let " \o propertyName \o " = RealmOptional<Float>()"
  ELSE "dynamic var " \o propertyName \o ": Float = 0.0"

StringDeclaration(propertyName, optional) ==
  IF optional
  THEN "dynamic var " \o propertyName \o ": String? = nil"
  ELSE "dynamic var " \o propertyName \o " = \"\""

UncaughtScalar(name) == "UNCAUGHT SCALAR " \o name

ScalarDeclaration(name, propertyName, optional) ==
  CASE ScalarCase(name) = GraphQLBoolean.name -> BooleanDeclaration(propertyName, optional)
    [] ScalarCase(name) = GraphQLInt.name -> IntDeclaration(propertyName, optional)
    [] ScalarCase(name) = GraphQLFloat.name -> FloatDeclaration(propertyName, optional)
    [] ScalarCase(name) = GraphQLString.name -> StringDeclaration(propertyName, optional)
    [] ScalarCase(name) = GraphQLID.name -> StringDeclaration(propertyName, optional)
    [] OTHER -> UncaughtScalar(name)

ListDeclaration(propertyName, typeName) ==
  "let " \o propertyName \o " = List<" \o typeName \o ">()"

ObjectDeclaration(propertyName, typeName) ==
  "dynamic var " \o propertyName \o ": " \o typeName \o "?"

EnumDeclaration(propertyName) ==
  "dynamic var " \o propertyName \o ": String? = nil"

\* mutant: the object branch is tested before isList
BranchObjectFirst(type, list) ==
  IF type.kind = "Object" THEN "object"
  ELSE IF list THEN "list"
  ELSE IF type.kind = "Scalar" THEN "scalar"
  ELSE IF type.kind = "Enum" THEN "enum"
  ELSE "none"

\* the branch of the if chain over the unwrapped type that is taken
Branch(type, list) ==
  IF list THEN "list"
  ELSE IF type.kind = "Object" THEN "object"
  ELSE IF type.kind = "Scalar" THEN "scalar"
  ELSE IF type.kind = "Enum" THEN "enum"
  ELSE "none"

\* the line the if chain prints, none ("") when no branch is taken
Declaration(p, optional, list) ==
  CASE Branch(p.type, list) = "list" -> ListDeclaration(p.propertyName, p.typeName)
    [] Branch(p.type, list) = "object" -> ObjectDeclaration(p.propertyName, p.typeName)
    [] Branch(p.type, list) = "scalar" -> ScalarDeclaration(p.type.name, p.propertyName, optional)
    [] Branch(p.type, list) = "enum" -> EnumDeclaration(p.propertyName)
    [] OTHER -> ""

\* the GraphQLID case of the switch is reached
IsIDCase(type, list) ==
  Branch(type, list) = "scalar" /\ ScalarCase(type.name) = GraphQLID.name

PrimaryKeyOverride == "override public static func primaryKey() -> String?"
PrimaryKeyReturn(propertyName) == "return \"" \o propertyName \o "\""

----------------------------------------------------------------------------
(* propertyDeclaration, one action per call and per block *)

ReturnToCaller ==
  IF caller = "generateFieldDeclaration"
  THEN pc' = "fields" /\ fieldIndex' = fieldIndex + 1
  ELSE pc' = "done" /\ UNCHANGED fieldIndex

\* type instanceof GraphQLNonNull: the recursive call on type.ofType
PropertyDeclarationNonNull ==
  /\ pc = "propertyDeclaration"
  /\ property.type.kind = "NonNull"
  /\ property' = Unwrapped(property)
  /\ isOptional' = NonNullIsOptional(isOptional)
  /\ isList' = isList
  /\ UNCHANGED <<context, generator, pc, typeIndex, fieldIndex, call, caller>>

\* type instanceof GraphQLList: the recursive call on type.ofType
PropertyDeclarationList ==
  /\ pc = "propertyDeclaration"
  /\ property.type.kind = "List"
  /\ property' = Unwrapped(property)
  /\ isOptional' = isOptional
  /\ isList' = ListIsList(isList)
  /\ UNCHANGED <<context, generator, pc, typeIndex, fieldIndex, call, caller>>

\* the unwrapped type, every case but GraphQLID: the comment and one line
PropertyDeclarationPrint ==
  /\ pc = "propertyDeclaration"
  /\ ~IsWrapper(property.type)
  /\ ~IsIDCase(property.type, isList)
  /\ generator' = printOnNewline(comment(generator, property.description),
                                 Declaration(property, isOptional, isList))
  /\ ReturnToCaller
  /\ UNCHANGED <<context, typeIndex, call, property, isOptional, isList, caller>>

\* the GraphQLID case, up to the closure of the primaryKey block
PropertyDeclarationID ==
  /\ pc = "propertyDeclaration"
  /\ ~IsWrapper(property.type)
  /\ IsIDCase(property.type, isList)
  /\ generator' =
       withinBlockOpen(
         printOnNewline(
           printOnNewline(comment(generator, property.description),
                          Declaration(property, isOptional, isList)),
           PrimaryKeyOverride))
  /\ pc' = "primaryKey"
  /\ UNCHANGED <<context, typeIndex, fieldIndex, call, property, isOptional,
                 isList, caller>>

\* the closure of the primaryKey block and the end of the block
PrimaryKeyBlock ==
  /\ pc = "primaryKey"
  /\ generator' =
       withinBlockClose(printOnNewline(generator, PrimaryKeyReturn(property.propertyName)))
  /\ ReturnToCaller
  /\ UNCHANGED <<context, typeIndex, call, property, isOptional, isList, caller>>

----------------------------------------------------------------------------
(* RealmModelGenerator *)

\* helpers.rootTypeNameFromGraphQLType: the name of the innermost type
rootTypeNameFromGraphQLType(type) == NamedTypeOf(type).name

\* mutant: the header without the blank line after its first line
fileHeaderNoBlankLine(g) ==
  printOnNewline(
    printOnNewline(
      printOnNewline(
        printOnNewline(g,
          "//  This file was automatically generated and should not be edited."),
        "import Apollo"),
      "import Realm"),
    "import RealmSwift")

fileHeader(g) ==
  printOnNewline(
    printOnNewline(
      printOnNewline(
        printNewline(
          printOnNewline(g,
            "//  This file was automatically generated and should not be edited.")),
        "import Apollo"),
      "import Realm"),
    "import RealmSwift")

IntrospectionPrefix == "__"

startsWith(string, prefix) == HasPrefix(string, prefix)

\* every GraphQLObjectType is an output type
isOutputType(type) == type.kind \in {"Scalar", "Object", "Interface", "Union", "Enum"}

\* mutant: the name of the type is not looked at
GeneratesClassAnyName(type) == type.kind = "Object" /\ isOutputType(type)

\* the condition under which realmTypeDeclarationType generates a class
GeneratesClass(type) ==
  /\ type.kind = "Object" /\ isOutputType(type)
  /\ ~startsWith(type.name, IntrospectionPrefix)

\* the Property generateFieldDeclaration passes to propertyDeclaration
FieldProperty(field) ==
  [propertyName |-> camelCase(field.name),
   typeName |-> rootTypeNameFromGraphQLType(field.type),
   type |-> field.type,
   description |-> << >>]

NoProperty ==
  [propertyName |-> "", typeName |-> "", type |-> NamedType("None", ""),
   description |-> << >>]

TypeMap == context.typeMap
CurrentType == TypeMap[typeIndex]
CurrentField == CurrentType.fields[fieldIndex]

\* generator.fileHeader()
FileHeader ==
  /\ pc = "generateSource"
  /\ generator' = fileHeader(generator)
  /\ pc' = "namespaceDeclaration"
  /\ UNCHANGED <<context, typeIndex, fieldIndex, call, property, isOptional,
                 isList, caller>>

\* namespaceDeclaration with a namespace: the block is opened, the closure called
NamespaceDeclarationOpen ==
  /\ pc = "namespaceDeclaration"
  /\ Truthy(context.options.namespace)
  /\ generator' = namespaceDeclarationOpen(generator, context.options.namespace[1])
  /\ pc' = "types"
  /\ typeIndex' = 1
  /\ UNCHANGED <<context, fieldIndex, call, property, isOptional, isList, caller>>

\* namespaceDeclaration without a namespace: the closure is called as it is
NamespaceDeclarationNone ==
  /\ pc = "namespaceDeclaration"
  /\ ~Truthy(context.options.namespace)
  /\ pc' = "types"
  /\ typeIndex' = 1
  /\ UNCHANGED <<context, generator, fieldIndex, call, property, isOptional,
                 isList, caller>>

\* realmTypeDeclarationType of a type that gets no class
RealmTypeDeclarationTypeSkip ==
  /\ pc = "types"
  /\ typeIndex <= Len(TypeMap)
  /\ ~GeneratesClass(CurrentType)
  /\ typeIndex' = typeIndex + 1
  /\ UNCHANGED <<context, generator, pc, fieldIndex, call, property, isOptional,
                 isList, caller>>

\* realmTypeDeclarationType of an object type: generateOutputObjectForType,
\* up to the closure of its class block
GenerateOutputObjectForType ==
  /\ pc = "types"
  /\ typeIndex <= Len(TypeMap)
  /\ GeneratesClass(CurrentType)
  /\ generator' = classDeclarationOpen(generator, "" \o CurrentType.name,
                                       << "public", "final" >>, << "Object" >>)
  /\ pc' = "fields"
  /\ fieldIndex' = 1
  /\ UNCHANGED <<context, typeIndex, call, property, isOptional, isList, caller>>

\* generateFieldDeclaration of the next field: its comment, then the call of
\* propertyDeclaration with the default flags
GenerateFieldDeclaration ==
  /\ pc = "fields"
  /\ fieldIndex <= Len(CurrentType.fields)
  /\ generator' = IF CurrentField.description # << >>
                  THEN comment(generator, CurrentField.description)
                  ELSE generator
  /\ call' = FieldProperty(CurrentField)
  /\ property' = FieldProperty(CurrentField)
  /\ isOptional' = DefaultIsOptional
  /\ isList' = DefaultIsList
  /\ pc' = "propertyDeclaration"
  /\ UNCHANGED <<context, typeIndex, fieldIndex, caller>>

\* the fields are done: the class block is closed, the next type is taken
ClassDeclarationClose ==
  /\ pc = "fields"
  /\ fieldIndex > Len(CurrentType.fields)
  /\ generator' = classDeclarationClose(generator)
  /\ pc' = "types"
  /\ typeIndex' = typeIndex + 1
  /\ UNCHANGED <<context, fieldIndex, call, property, isOptional, isList, caller>>

\* the types are done inside a namespace: its block is closed, the output returned
NamespaceDeclarationClose ==
  /\ pc = "types"
  /\ typeIndex > Len(TypeMap)
  /\ Truthy(context.options.namespace)
  /\ generator' = namespaceDeclarationClose(generator)
  /\ pc' = "done"
  /\ UNCHANGED <<context, typeIndex, fieldIndex, call, property, isOptional,
                 isList, caller>>

\* the types are done without a namespace: the output is returned
ReturnOutput ==
  /\ pc = "types"
  /\ typeIndex > Len(TypeMap)
  /\ ~Truthy(context.options.namespace)
  /\ pc' = "done"
  /\ UNCHANGED <<context, generator, typeIndex, fieldIndex, call, property,
                 isOptional, isList, caller>>

----------------------------------------------------------------------------
(* The schemas and options generateSource is run on *)

SchemaFieldNames == {"user_id", "default"}

SchemaFieldTypes ==
  { GraphQLNonNull(GraphQLID), GraphQLList(GraphQLID),
    NamedType("Scalar", "Date"), NamedType("Interface", "Node") }

SchemaDescriptions == { << >> }

\* every name with every type, undocumented, and one documented field
SchemaFields ==
  [name : SchemaFieldNames, type : SchemaFieldTypes, description : SchemaDescriptions]
    \cup { [name |-> "user_id", type |-> GraphQLNonNull(GraphQLID),
            description |-> << "The id of the user" >>] }

ObjectTypeNames == {"User", "__Type"}

OtherTypes ==
  { NamedType("Scalar", "Date"), NamedType("Enum", "Episode"),
    NamedType("InputObject", "ReviewInput") }

\* options.namespace: absent, the empty string, a name
Namespaces == { << >>, << "" >>, << "API" >> }

\* the field lists (of distinct names) of at most n fields
RECURSIVE FieldLists(_)
FieldLists(n) ==
  IF n = 0 THEN { << >> }
  ELSE LET S == FieldLists(n - 1)
       IN  S \cup { Append(fs, f) : fs \in { x \in S : Len(x) = n - 1 },
                                    f \in SchemaFields }

DistinctNames(seq) ==
  \A i, j \in 1..Len(seq) : seq[i].name = seq[j].name => i = j

ObjectTypes(n) ==
  { [kind |-> "Object", name |-> name, fields |-> fs] :
      name \in ObjectTypeNames, fs \in { x \in FieldLists(n) : DistinctNames(x) } }

NumFields(type) == IF type.kind = "Object" THEN Len(type.fields) ELSE 0

\* the type maps of at most k types (of distinct names) and n fields in all
RECURSIVE TypeMaps(_, _)
TypeMaps(k, n) ==
  IF k = 0 THEN { << >> }
  ELSE { << >> } \cup
       UNION { { << t >> \o m : m \in { x \in TypeMaps(k - 1, n - NumFields(t)) :
                                          \A i \in 1..Len(x) : x[i].name # t.name } } :
               t \in ObjectTypes(n) \cup OtherTypes }

Contexts ==
  [typeMap : TypeMaps(MaxTypes, MaxFields), options : [namespace : Namespaces]]

PropertyNames == {"id", "flag"}
PropertyDescriptions == { << >>, << "The value" >> }

\* the properties propertyDeclaration is called with
Properties ==
  { [propertyName |-> n, typeName |-> rootTypeNameFromGraphQLType(t),
     type |-> t, description |-> d] :
      n \in PropertyNames, t \in WrappedTypes(OutputNamedTypes, MaxWrappers),
      d \in PropertyDescriptions }

----------------------------------------------------------------------------
(* generateSource(context) *)

Init ==
  /\ context \in Contexts
  /\ generator = NewGenerator
  /\ pc = "generateSource"
  /\ typeIndex = 0
  /\ fieldIndex = 0
  /\ call = NoProperty
  /\ property = NoProperty
  /\ isOptional = DefaultIsOptional
  /\ isList = DefaultIsList
  /\ caller = "generateFieldDeclaration"

Next ==
  \/ FileHeader
  \/ NamespaceDeclarationOpen
  \/ NamespaceDeclarationNone
  \/ RealmTypeDeclarationTypeSkip
  \/ GenerateOutputObjectForType
  \/ GenerateFieldDeclaration
  \/ PropertyDeclarationNonNull
  \/ PropertyDeclarationList
  \/ PropertyDeclarationPrint
  \/ PropertyDeclarationID
  \/ PrimaryKeyBlock
  \/ ClassDeclarationClose
  \/ NamespaceDeclarationClose
  \/ ReturnOutput

Spec == Init /\ [][Next]_vars

(* propertyDeclaration(property) on a new generator *)

InitProperty ==
  /\ context = [typeMap |-> << >>, options |-> [namespace |-> << >>]]
  /\ generator = NewGenerator
  /\ pc = "propertyDeclaration"
  /\ typeIndex = 0
  /\ fieldIndex = 0
  /\ call \in Properties
  /\ property = call
  /\ isOptional = DefaultIsOptional
  /\ isList = DefaultIsList
  /\ caller = "propertyDeclaration"

NextProperty ==
  \/ PropertyDeclarationNonNull
  \/ PropertyDeclarationList
  \/ PropertyDeclarationPrint
  \/ PropertyDeclarationID
  \/ PrimaryKeyBlock

SpecProperty == InitProperty /\ [][NextProperty]_vars

----------------------------------------------------------------------------
(* Reading the output back *)

Output == generator.output
Done == pc = "done"

Map(seq, Op(_)) == [i \in 1..Len(seq) |-> Op(seq[i])]

LineIndent(line) == Len(line) - Len(TrimStart(line))

IsClassLine(line) ==
  HasPrefix(TrimStart(line), "public final class ") /\ HasSuffix(line, ": Object {")

ClassNameOf(line) ==
  LET t == TrimStart(line)
  IN  SubSeq(t, Len("public final class ") + 1, Len(t) - Len(": Object {"))

\* the names of the classes the output declares, in the order of the output
EmittedClassNames == Map(SelectSeq(Output, IsClassLine), ClassNameOf)

\* the lines between the class line of className and the brace closing it
ClassBody(className) ==
  LET i == CHOOSE k \in 1..Len(Output) :
             IsClassLine(Output[k]) /\ ClassNameOf(Output[k]) = className
      closing == Indentation(LineIndent(Output[i])) \o "}"
      j == CHOOSE k \in (i + 1)..Len(Output) :
             /\ Output[k] = closing
             /\ \A m \in (i + 1)..(k - 1) : Output[m] # closing
  IN  SubSeq(Output, i + 1, j - 1)

IsMarkerLine(line) == HasPrefix(TrimStart(line), "UNCAUGHT SCALAR ")
IsCommentLine(line) == HasPrefix(TrimStart(line), "///")

IsDeclarationLine(line) ==
  \/ HasPrefix(TrimStart(line), "let ")
  \/ HasPrefix(TrimStart(line), "dynamic var ")
  \/ IsMarkerLine(line)

\* the property name a "let" or "dynamic var" line declares
DeclaredName(line) ==
  LET t == TrimStart(line)
      start == IF HasPrefix(t, "let ") THEN Len("let ") + 1 ELSE Len("dynamic var ") + 1
  IN  SubSeq(t, start, IndexOfAny(t, {" ", ":"}, start) - 1)

\* the declaration lines of the class of className, in the order of the output
Declarations(className) == SelectSeq(ClassBody(className), IsDeclarationLine)

IsDeclarationOf(line, field) ==
  IF IsMarkerLine(line)
  THEN TrimStart(line) = "UNCAUGHT SCALAR " \o NamedTypeOf(field.type).name
  ELSE DeclaredName(line) = camelCase(field.name)

IsPrimaryKeyLine(line) ==
  TrimStart(line) = "override public static func primaryKey() -> String? {"

\* the positions of the primaryKey overrides in the output
PrimaryKeyOverrides == { i \in 1..Len(Output) : IsPrimaryKeyLine(Output[i]) }

\* the override at line i returns the name
OverrideNames(i, name) ==
  /\ i + 2 <= Len(Output)
  /\ TrimStart(Output[i + 1]) = "return \"" \o name \o "\""
  /\ TrimStart(Output[i + 2]) = "}"

InnermostIsID(type) == NamedTypeOf(type) = NamedType("Scalar", "ID")
InnermostIsBoolean(type) == NamedTypeOf(type) = NamedType("Scalar", "Boolean")
InList(type) == HasWrapper(type, "List")
InNonNull(type) == HasWrapper(type, "NonNull")

\* the object types of the type map whose name does not start with "__"
IsEligible(type) == type.kind = "Object" /\ SubSeq(type.name, 1, 2) # "__"
NameOf(type) == type.name
EligibleTypes == SelectSeq(TypeMap, IsEligible)

FileHeaderLines ==
  << "//  This file was automatically generated and should not be edited.",
     "", "import Apollo", "import Realm", "import RealmSwift" >>

----------------------------------------------------------------------------
(* The claims *)

\* C1, as claimed: when propertyDeclaration has returned, the output holds
\* exactly one primaryKey override, naming the field, if the innermost type of
\* the field is ID under any NonNull and List wrappers, and none otherwise.
C1_AsClaimed ==
  Done =>
    IF InnermostIsID(call.type)
    THEN /\ Cardinality(PrimaryKeyOverrides) = 1
         /\ \A i \in PrimaryKeyOverrides : OverrideNames(i, call.propertyName)
    ELSE PrimaryKeyOverrides = {}

\* C1, amended: exactly one primaryKey override, naming the field, for a field
\* whose innermost type is ID and whose type has no List wrapper (with or
\* without NonNull); none for a list of ID and none for any other field.
C1_PrimaryKeyOncePerNonListID ==
  Done =>
    IF InnermostIsID(call.type) /\ ~InList(call.type)
    THEN /\ Cardinality(PrimaryKeyOverrides) = 1
         /\ \A i \in PrimaryKeyOverrides : OverrideNames(i, call.propertyName)
    ELSE PrimaryKeyOverrides = {}

\* C1, witness: an override has been printed for a field of type ID!
C1_Witness ==
  /\ Done
  /\ call.type = GraphQLNonNull(GraphQLID)
  /\ Cardinality(PrimaryKeyOverrides) = 1

\* C2: for a field whose type has a List wrapper at any depth, whatever the
\* innermost type and the NonNull wrappers, propertyDeclaration prints the line
\* "let <name> = List<<typeName>>()" and nothing else.
C2_ListFormOnly ==
  (Done /\ InList(call.type)) =>
    Output = << "let " \o call.propertyName \o " = List<" \o call.typeName \o ">()" >>

\* C2, witness: a documented field of type [User!]! has printed the list form
C2_Witness ==
  /\ Done
  /\ call.type = GraphQLNonNull(GraphQLList(GraphQLNonNull(NamedType("Object", "User"))))
  /\ call.description # << >>
  /\ Len(Output) = 1
  /\ HasSuffix(Output[1], " = List<User>()")

\* C3: for a non-list field whose innermost type is Boolean, the one
\* declaration printed is "dynamic var <name> = false" if the type is wrapped in
\* NonNull and "let <name> = RealmOptional<Bool>()" if it is not.
C3_BooleanForm ==
  (Done /\ InnermostIsBoolean(call.type) /\ ~InList(call.type)) =>
    SelectSeq(Output, LAMBDA line : ~IsCommentLine(line)) =
      << IF InNonNull(call.type)
         THEN "dynamic var " \o call.propertyName \o " = false"
         ELSE "let " \o call.propertyName \o " = RealmOptional<Bool>()" >>

\* C3, witness: a field of type Boolean! has printed the non-optional form
C3_Witness ==
  /\ Done
  /\ call.type = GraphQLNonNull(GraphQLBoolean)
  /\ Output = << "dynamic var " \o call.propertyName \o " = false" >>

\* propertyDeclaration has unwrapped the type and is about to print
AtTerminalDecision == pc = "propertyDeclaration" /\ ~IsWrapper(property.type)

\* C8, as claimed: classification starts with isOptional = true and isList =
\* false, and for a list-typed field the isOptional flag that reaches the
\* terminal decision is false exactly when the outermost list is wrapped in
\* NonNull; a NonNull around the element does not change it.
C8_AsClaimed ==
  /\ property = call => (isOptional = TRUE /\ isList = FALSE)
  /\ (AtTerminalDecision /\ InList(call.type)) =>
       (isOptional = FALSE <=> call.type.kind = "NonNull")

\* C8, amended: classification starts with isOptional = true and isList = false;
\* at the terminal decision isOptional is false exactly when the type has a
\* NonNull wrapper at any depth, around the list or around an element, and
\* isList is true exactly when it has a List wrapper.
C8_FlagsAtTerminalDecision ==
  /\ property = call => (isOptional = TRUE /\ isList = FALSE)
  /\ AtTerminalDecision =>
       /\ isOptional = ~InNonNull(call.type)
       /\ isList = InList(call.type)

\* C8, witness: the terminal decision of a field of type [String!]
C8_Witness ==
  /\ AtTerminalDecision
  /\ call.type = GraphQLList(GraphQLNonNull(GraphQLString))
  /\ isOptional = FALSE
  /\ isList = TRUE

\* C4: when generateSource has returned, the output declares exactly one class
\* for each object type of the type map whose name does not start with "__",
\* in the order of the type map, and no other class (none for a scalar, an
\* enum, an input type or a type named "__...").
C4_ClassesAreEligibleObjectTypes ==
  Done => EmittedClassNames = Map(EligibleTypes, NameOf)

\* C4, witness: a type map with the object types __Type (with a field) and
\* User, for which the one class User has been declared
C4_Witness ==
  /\ Done
  /\ \E i, j \in 1..Len(TypeMap) :
       /\ TypeMap[i].kind = "Object" /\ TypeMap[i].name = "__Type"
       /\ Len(TypeMap[i].fields) > 0
       /\ TypeMap[j].kind = "Object" /\ TypeMap[j].name = "User"
  /\ EmittedClassNames = << "User" >>

\* C5, as claimed: given an empty type map, generateSource returns only the
\* file header, whatever the options, options.namespace set included.
C5_AsClaimed ==
  (Done /\ TypeMap = << >>) => Output = FileHeaderLines

\* C5, amended: given an empty type map, generateSource returns only the file
\* header when options.namespace is not set; when it is set the header is
\* followed by a blank line and the empty block of the namespace
\* ("/// <namespace> namespace", "public enum <namespace> {", "}"); no class is
\* declared in either case.
C5_EmptyTypeMap ==
  (Done /\ TypeMap = << >>) =>
    /\ EmittedClassNames = << >>
    /\ Output =
         IF Truthy(context.options.namespace)
         THEN FileHeaderLines \o
              << "",
                 "/// " \o context.options.namespace[1] \o " namespace",
                 "public enum " \o context.options.namespace[1] \o " {",
                 "}" >>
         ELSE FileHeaderLines

\* C5, witness: an empty type map under the namespace API
C5_Witness ==
  /\ Done
  /\ TypeMap = << >>
  /\ context.options.namespace = << "API" >>
  /\ Len(Output) = Len(FileHeaderLines) + 4

IsUncaughtScalarField(field) ==
  /\ ~InList(field.type)
  /\ NamedTypeOf(field.type).kind = "Scalar"
  /\ NamedTypeOf(field.type).name \notin {"Boolean", "Int", "Float", "String", "ID"}

\* C6: when generateSource has returned (it always does), a non-list field of
\* an unrecognised scalar has produced the marker "UNCAUGHT SCALAR <name>" in
\* its class, every field declared after it in the same type has its
\* declaration after the marker, and every later eligible type has its class.
C6_AsClaimed ==
  Done =>
    \A t \in 1..Len(TypeMap) :
      IsEligible(TypeMap[t]) =>
        \A i \in 1..Len(TypeMap[t].fields) :
          IsUncaughtScalarField(TypeMap[t].fields[i]) =>
            LET fields == TypeMap[t].fields
                decls == Declarations(TypeMap[t].name)
            IN  /\ \E k \in 1..Len(decls) :
                     /\ IsMarkerLine(decls[k])
                     /\ IsDeclarationOf(decls[k], fields[i])
                     /\ \A j \in (i + 1)..Len(fields) :
                          \E m \in (k + 1)..Len(decls) :
                            IsDeclarationOf(decls[m], fields[j])
                /\ \A u \in (t + 1)..Len(TypeMap) :
                     IsEligible(TypeMap[u]) =>
                       \E n \in 1..Len(EmittedClassNames) :
                         EmittedClassNames[n] = TypeMap[u].name

\* C7: when generateSource has returned, each class holds exactly one property
\* declaration per field of its object type, in the order of the fields.
C7_AsClaimed ==
  Done =>
    \A t \in 1..Len(TypeMap) :
      IsEligible(TypeMap[t]) =>
        LET fields == TypeMap[t].fields
            decls == Declarations(TypeMap[t].name)
        IN  /\ Len(decls) = Len(fields)
            /\ \A i \in 1..Len(decls) : IsDeclarationOf(decls[i], fields[i])

\* C9, as claimed: in every state of a run of generateSource the indentation
\* level equals the depth of the scope stack.
C9_AsClaimed == generator.indentLevel = Len(generator.scopeStack)

\* the frames of the blocks whose closure is running
OpenFrames ==
  (IF Truthy(context.options.namespace)
      /\ pc \in {"types", "fields", "propertyDeclaration", "primaryKey"}
   THEN << [typeName |-> context.options.namespace[1]] >> ELSE << >>)
  \o
  (IF pc \in {"fields", "propertyDeclaration", "primaryKey"}
   THEN << [typeName |-> CurrentType.name] >> ELSE << >>)

\* C9, amended: while the closure of a namespace or class block runs, the block
\* has pushed exactly one scope frame and raised the indentation by one level,
\* and both are undone when it closes; the primaryKey block opened while an ID
\* property is printed raises the indentation without pushing a frame, so the
\* indentation level equals the depth of the scope stack everywhere but inside
\* that block, where it is one more.
C9_IndentationAndScopes ==
  /\ generator.scopeStack = OpenFrames
  /\ generator.indentLevel =
       Len(generator.scopeStack) + (IF pc = "primaryKey" THEN 1 ELSE 0)

\* C9, witness: inside the primaryKey block of a class inside a namespace
C9_Witness ==
  /\ pc = "primaryKey"
  /\ Len(generator.scopeStack) = 2
  /\ generator.indentLevel = 3

====
